---- MODULE Spec2Model ----
(***************************************************************************)
(* Model of mesh_sphere_packing/tetmesh.py: the assembly of the input of   *)
(* the tetrahedral mesher (boundary replication, vertex merge, zero        *)
(* snapping, facet and hole lists) and the scope that redirects the        *)
(* mesher's console output.                                                *)
(*                                                                         *)
(* Coordinates are integers on a grid whose unit is TOL.  Arrays are       *)
(* sequences; the indices stored in triangles are 0-based as in the code,  *)
(* so element i of array a is a[i+1].                                      *)
(***************************************************************************)
EXTENDS Integers, Sequences, FiniteSets, TLC

VARIABLES
    domain,          \* Domain: [L |-> <<Lx, Ly, Lz>>]
    sphere_pieces,   \* list of SpherePiece: [points, tris, sphere: [id, x], is_hole]
    boundaries,      \* list of boundaryPLC: [points, tris]
    pc,              \* position in build_tetmesh / the called function
    points,          \* the global point array (build_tetmesh, line 341)
    facets,          \* build_facet_list's first result
    markers,         \* build_facet_list's second result
    holes,           \* build_hole_list's result
    mesh,            \* the MeshInfo handed to tet.build
    entry,           \* the arguments as they were on entry to the operation
    rpc,             \* position in redirect_tetgen_output and the with block
    stdout_fd,       \* what original_stdout_fd refers to: "terminal" or "tfile"
    saved_stdout_fd, \* the os.dup of stdout: "none", "open" or "closed"
    tfile,           \* the log file object: "unbound", "open" or "closed"
    log,             \* the lines of the log file
    fpos,            \* tfile's read position (1-based line number)
    engine,          \* tet.build: "none", "ok" or "failed"
    exc,             \* the exception in flight, or None
    info,            \* what the scope gave logger.info after the build
    outcome          \* how the with block of build_tetmesh ended

geomVars == <<domain, sphere_pieces, boundaries, pc, points, facets, markers,
              holes, mesh, entry>>

redirVars == <<rpc, stdout_fd, saved_stdout_fd, tfile, log, fpos, engine, exc,
               info, outcome>>

vars == <<geomVars, redirVars>>

----------------------------------------------------------------------------
(* Bounds of the model and program constants *)

MaxPiecePts == 2
MaxBoundaryPts == 2
MaxPieces == 2
MaxSphereId == 1
MaxPatchPts == 1

\* TOL is imported from the package (line 9); its value is set outside this
\* file (of the order of 1e-10).  It is the grid unit.
TOL == 1
\* np.isclose(a, b): |a - b| <= atol + rtol * |b|, with numpy's defaults
\* atol = 1e-8 and rtol = 1e-5 (rtol = 1 / RtolDen).  atol is 100 TOL in the
\* program; the grid keeps atol > TOL with the smallest value that still
\* separates "farther than TOL" from "close to the plane".
Atol == 2
RtolDen == 100000
\* build_facet_list, line 309
mark_offset == 7

None == "None"

----------------------------------------------------------------------------
(* numpy / scipy primitives *)

Abs(x) == IF x < 0 THEN -x ELSE x

Min(S) == CHOOSE m \in S : \A n \in S : m <= n

IsClose(a, b) == Abs(a - b) * RtolDen <= Atol * RtolDen + Abs(b)

Dist2(p, q) ==
    (p[1] - q[1]) * (p[1] - q[1]) + (p[2] - q[2]) * (p[2] - q[2])
    + (p[3] - q[3]) * (p[3] - q[3])

\* Euclidean distance <= r
Within(p, q, r) == Dist2(p, q) <= r * r

RECURSIVE Vstack(_)
Vstack(arrays) ==
    IF arrays = <<>> THEN <<>> ELSE Head(arrays) \o Vstack(Tail(arrays))

\* tris += off
AddTris(tris, off) ==
    [t \in DOMAIN tris |-> [c \in 1..3 |-> tris[t][c] + off]]

\* number of points of the sources before source k
RECURSIVE Vcount(_, _)
Vcount(srcs, k) ==
    IF k <= 1 THEN 0 ELSE Vcount(srcs, k - 1) + Len(srcs[k - 1].points)

\* the 0-based indices of an array of length n, ascending; np.where(..)[0]
\* is the subsequence of those that pass the test
Arange(n) == [i \in 1..n |-> i - 1]

----------------------------------------------------------------------------
(* duplicate_lower_boundaries *)

\* mutant: the offset always taken along x
TranslateAlongX(L, i) == [j \in 1..3 |-> IF j = i THEN L[1] ELSE 0]

Translate(L, i) == [j \in 1..3 |-> IF j = i THEN L[j] ELSE 0]

AddPoint(p, t) == [j \in 1..3 |-> p[j] + t[j]]

UpperBoundaries(L, lower_boundaries) ==
    [i \in DOMAIN lower_boundaries |->
        [lower_boundaries[i] EXCEPT
            !.points = [k \in DOMAIN @ |-> AddPoint(@[k], Translate(L, i))]]]

duplicate_lower_boundaries(dom, lower_boundaries) ==
    lower_boundaries \o UpperBoundaries(dom.L, lower_boundaries)

----------------------------------------------------------------------------
(* build_point_list *)

OnBoundaryPlane(L, p) ==
    \E i \in 1..3 : IsClose(p[i], 0) \/ IsClose(p[i], L[i])

BppIdx(L, piece_points) ==
    LET Test(i) == OnBoundaryPlane(L, piece_points[i + 1])
    IN  SelectSeq(Arange(Len(piece_points)), Test)

\* mutant: pairs strictly closer than r only
QueryPairsStrict(bp, r) ==
    {pr \in (0..(Len(bp) - 1)) \X (0..(Len(bp) - 1)) :
        pr[1] < pr[2] /\ Dist2(bp[pr[1] + 1], bp[pr[2] + 1]) < r * r}

\* tree.query_pairs(r): the pairs (i, j), i < j, at distance <= r
QueryPairs(bp, r) ==
    {pr \in (0..(Len(bp) - 1)) \X (0..(Len(bp) - 1)) :
        pr[1] < pr[2] /\ Within(bp[pr[1] + 1], bp[pr[2] + 1], r)}

\* the loop over the pairs sorted by their first index: the first pair that
\* names v as its second index sets dup[v], and it has the least first index
DupMap(pairs) ==
    [v \in {pr[2] : pr \in pairs} |->
        Min({pr[1] : pr \in {q \in pairs : q[2] = v}})]

\* mutant: the new boundary points numbered one too high
RemapOffByOne(bpp_idx, vcount_piece, ncompact) ==
    LET vcount_bpp == Len(bpp_idx)
        extra == IF ncompact > vcount_bpp THEN ncompact - vcount_bpp ELSE 0
    IN  [c \in (0..(vcount_bpp - 1)) \cup
               {v + vcount_bpp : v \in 0..(extra - 1)} |->
            IF c < vcount_bpp THEN bpp_idx[c + 1]
            ELSE (c - vcount_bpp) + vcount_piece + 1]

\* remap: boundary-adjacent piece point -> its index in piece_points, then
\* the compacted boundary-only points -> their index after piece_points
Remap(bpp_idx, vcount_piece, ncompact) ==
    LET vcount_bpp == Len(bpp_idx)
        extra == IF ncompact > vcount_bpp THEN ncompact - vcount_bpp ELSE 0
    IN  [c \in (0..(vcount_bpp - 1)) \cup
               {v + vcount_bpp : v \in 0..(extra - 1)} |->
            IF c < vcount_bpp THEN bpp_idx[c + 1]
            ELSE (c - vcount_bpp) + vcount_piece]

\* reindex before the update with dup: kept old index -> compacted index
Reindex0(n, dup) ==
    [old \in {i \in 0..(n - 1) : i \notin DOMAIN dup} |->
        Cardinality({s \in 0..(old - 1) : s \notin DOMAIN dup})]

\* {k: reindex[v] for k, v in dup.items()} raises KeyError when some v is
\* itself a removed index
ReindexKeyError(n, dup) ==
    \E k \in DOMAIN dup : dup[k] \notin DOMAIN Reindex0(n, dup)

Reindex(n, dup) ==
    LET reindex0 == Reindex0(n, dup)
    IN  [old \in 0..(n - 1) |->
            IF old \in DOMAIN dup THEN reindex0[dup[old]] ELSE reindex0[old]]

Compact(bp, dup) ==
    LET Keep(i) == i \notin DOMAIN dup
        kept == SelectSeq(Arange(Len(bp)), Keep)
    IN  [k \in DOMAIN kept |-> bp[kept[k] + 1]]

build_point_list(dom, pieces, bounds) ==
    LET piece_points == Vstack([k \in DOMAIN pieces |-> pieces[k].points])
        pieces1 == [k \in DOMAIN pieces |->
                      [pieces[k] EXCEPT !.tris = AddTris(@, Vcount(pieces, k))]]
        bpp_idx == BppIdx(dom.L, piece_points)
        vcount_bpp == Len(bpp_idx)
        vcount_piece == Len(piece_points)
        bounds1 == [k \in DOMAIN bounds |->
                      [bounds[k] EXCEPT
                          !.tris = AddTris(@, vcount_bpp + Vcount(bounds, k))]]
        bp == [k \in 1..vcount_bpp |-> piece_points[bpp_idx[k] + 1]]
              \o Vstack([k \in DOMAIN bounds |-> bounds[k].points])
        dup == DupMap(QueryPairs(bp, TOL))
        compacted == Compact(bp, dup)
        remap == Remap(bpp_idx, vcount_piece, Len(compacted))
        reindex == Reindex(Len(bp), dup)
        keyerror ==
            \/ ReindexKeyError(Len(bp), dup)
            \/ \E k \in DOMAIN bounds1 : \E t \in DOMAIN bounds1[k].tris :
                 \E c \in 1..3 :
                    \/ bounds1[k].tris[t][c] \notin DOMAIN reindex
                    \/ reindex[bounds1[k].tris[t][c]] \notin DOMAIN remap
        bounds2 == [k \in DOMAIN bounds1 |->
                      [bounds1[k] EXCEPT
                          !.tris = [t \in DOMAIN @ |->
                                      [c \in 1..3 |-> remap[reindex[@[t][c]]]]]]]
    IN  IF keyerror
        THEN [raised |-> TRUE, points |-> None, sphere_pieces |-> pieces1,
              boundaries |-> bounds1, boundary_points |-> bp,
              reindex |-> <<>>]
        ELSE [raised |-> FALSE,
              points |-> piece_points
                         \o SubSeq(compacted, vcount_bpp + 1, Len(compacted)),
              sphere_pieces |-> pieces1, boundaries |-> bounds2,
              boundary_points |-> bp,
              reindex |-> [i \in 1..Len(bp) |-> remap[reindex[i - 1]]]]

----------------------------------------------------------------------------
(* build_tetmesh, lines 343-345: fix boundary points to exactly zero *)

SnapCoord(x) == IF IsClose(x, 0) THEN 0 ELSE x

ZeroSnapped(pts) == [k \in DOMAIN pts |-> [i \in 1..3 |-> SnapCoord(pts[k][i])]]

----------------------------------------------------------------------------
(* build_facet_list and build_hole_list *)

\* mutant: the six patches numbered in list order
BoundaryMarkerInOrder(i) == i

\* the marker of boundary i (1-based position in the list of six)
BoundaryMarker(i) ==
    CASE i = 1 -> 1 [] i = 2 -> 3 [] i = 3 -> 5
      [] i = 4 -> 2 [] i = 5 -> 4 [] i = 6 -> 6

SphereMarker(p) == p.sphere.id + mark_offset

\* np.full(n, m)
Full(n, m) == [k \in 1..n |-> m]

build_facet_list(pieces, bounds) ==
    LET all_facets == [k \in DOMAIN bounds |-> bounds[k].tris]
                      \o [k \in DOMAIN pieces |-> pieces[k].tris]
        all_markers == [i \in 1..6 |-> Full(Len(bounds[i].tris), BoundaryMarker(i))]
                       \o [k \in DOMAIN pieces |->
                             Full(Len(pieces[k].tris), SphereMarker(pieces[k]))]
    IN  [facets |-> Vstack(all_facets), markers |-> Vstack(all_markers)]

\* an array of shape (n, 3)
Array3(rows) == [shape |-> <<Len(rows), 3>>, rows |-> rows]

\* mutant: the is_hole filter forgotten
IsHoleAny(p) == TRUE

IsHole(p) == p.is_hole

build_hole_list(pieces) ==
    LET all_holes == [k \in DOMAIN SelectSeq(pieces, IsHole) |->
                        SelectSeq(pieces, IsHole)[k].sphere.x]
    IN  IF Len(all_holes) > 0 THEN Array3(all_holes) ELSE Array3(<<>>)

----------------------------------------------------------------------------
(* Inputs *)

SeqsUpTo(S, n) == UNION {[1..k -> S] : k \in 0..n}

\* the lists of at most n different elements of S
DistinctSeqsUpTo(S, n) ==
    {s \in SeqsUpTo(S, n) : \A i, j \in DOMAIN s : i # j => s[i] # s[j]}

\* the ways to cut a point list into consecutive non-empty arrays
RECURSIVE Groupings(_)
Groupings(s) ==
    IF s = <<>> THEN {<<>>}
    ELSE UNION {{<<SubSeq(s, 1, k)>> \o g :
                    g \in Groupings(SubSeq(s, k + 1, Len(s)))} : k \in 1..Len(s)}

\* a triangle fan over n local points: every local index is referenced
FanTris(n) == [t \in 1..n |-> <<0, t - 1, t % n>>]

Patch(pts) == [points |-> pts, tris |-> FanTris(Len(pts))]

Sphere(id) == [id |-> id, x |-> <<2 * id, 3, 4>>]

Piece(pts, id, hole) ==
    [points |-> pts, tris |-> FanTris(Len(pts)), sphere |-> Sphere(id),
     is_hole |-> hole]

DomainL == <<6, 7, 8>>

\* sphere-surface points along the line y = z = 3: on the plane x = 0, near
\* it, in the interior, and near the plane x = Lx
PiecePool == {<<0, 3, 3>>, <<1, 3, 3>>, <<2, 3, 3>>, <<3, 3, 3>>, <<5, 3, 3>>}

\* boundary-patch points: on the plane x = 0, near it, off every plane, and
\* on the plane x = Lx
BoundaryPool == {<<0, 3, 3>>, <<0, 2, 3>>, <<1, 3, 3>>, <<3, 3, 3>>, <<6, 3, 3>>}

\* points of the lower patch of axis i: the corner shared by the three lower
\* planes and a point inside the face
PlanePool(i) == {<<0, 0, 0>>, [j \in 1..3 |-> IF j = i THEN 0 ELSE 3]}

NoResult == <<>>

\* the output-redirection scope has not been entered
RedirectIdle ==
    /\ rpc = "idle"
    /\ stdout_fd = "terminal"
    /\ saved_stdout_fd = "none"
    /\ tfile = "unbound"
    /\ log = <<>>
    /\ fpos = 1
    /\ engine = "none"
    /\ exc = None
    /\ info = None
    /\ outcome = None

InitCommon ==
    /\ RedirectIdle
    /\ domain = [L |-> DomainL]
    /\ pc = "start"
    /\ points = NoResult
    /\ facets = NoResult
    /\ markers = NoResult
    /\ holes = NoResult
    /\ mesh = NoResult
    /\ entry = NoResult

\* build_tetmesh's arguments: three lower patches, each a list of different
\* points of its plane, and pieces of spheres
Init ==
    /\ InitCommon
    /\ \E n \in 0..MaxPieces :
         sphere_pieces \in
            [1..n -> {Piece(<<<<2 * id, 3, 3>>>>, id, h) :
                        id \in 0..MaxSphereId, h \in BOOLEAN}]
    /\ boundaries \in
         {<<Patch(a), Patch(b), Patch(c)>> :
            a \in DistinctSeqsUpTo(PlanePool(1), MaxPatchPts),
            b \in DistinctSeqsUpTo(PlanePool(2), MaxPatchPts),
            c \in DistinctSeqsUpTo(PlanePool(3), MaxPatchPts)}

\* build_point_list's arguments: any pieces, any patches
InitMerge ==
    /\ InitCommon
    /\ \E s \in SeqsUpTo(PiecePool, MaxPiecePts) : \E g \in Groupings(s) :
         sphere_pieces = [k \in DOMAIN g |-> Piece(g[k], 0, FALSE)]
    /\ \E s \in SeqsUpTo(BoundaryPool, MaxBoundaryPts) : \E g \in Groupings(s) :
         boundaries = [k \in DOMAIN g |-> Patch(g[k])]

----------------------------------------------------------------------------
(* Operations *)

\* line 339
DuplicateLowerBoundaries ==
    /\ pc = "start"
    /\ Len(boundaries) = 3
    /\ entry' = [lower_boundaries |-> boundaries]
    /\ boundaries' = duplicate_lower_boundaries(domain, boundaries)
    /\ pc' = "duplicated"
    /\ UNCHANGED <<domain, sphere_pieces, points, facets, markers, holes, mesh>>
    /\ UNCHANGED redirVars

\* line 341 (or a direct call)
BuildPointList(from) ==
    /\ pc = from
    /\ \E r \in {build_point_list(domain, sphere_pieces, boundaries)} :
           /\ entry' = [sphere_pieces |-> sphere_pieces,
                        boundaries |-> boundaries,
                        boundary_points |-> r.boundary_points,
                        reindex |-> r.reindex]
           /\ sphere_pieces' = r.sphere_pieces
           /\ boundaries' = r.boundaries
           /\ points' = r.points
           /\ pc' = IF r.raised THEN "raised" ELSE "merged"
    /\ UNCHANGED <<domain, facets, markers, holes, mesh>>
    /\ UNCHANGED redirVars

\* lines 343-345
ZeroSnap ==
    /\ pc = "merged"
    /\ points' = ZeroSnapped(points)
    /\ pc' = "snapped"
    /\ UNCHANGED <<domain, sphere_pieces, boundaries, facets, markers, holes,
                   mesh, entry>>
    /\ UNCHANGED redirVars

\* line 347
BuildFacetList ==
    /\ pc = "snapped"
    /\ \E r \in {build_facet_list(sphere_pieces, boundaries)} :
           /\ facets' = r.facets
           /\ markers' = r.markers
    /\ pc' = "facets"
    /\ UNCHANGED <<domain, sphere_pieces, boundaries, points, holes, mesh, entry>>
    /\ UNCHANGED redirVars

\* line 348
BuildHoleList ==
    /\ pc = "facets"
    /\ holes' = build_hole_list(sphere_pieces)
    /\ pc' = "holes"
    /\ UNCHANGED <<domain, sphere_pieces, boundaries, points, facets, markers,
                   mesh, entry>>
    /\ UNCHANGED redirVars

\* lines 357-360
SetMesh ==
    /\ pc = "holes"
    /\ mesh' = [points |-> points, facets |-> facets, markers |-> markers,
                holes |-> holes]
    /\ pc' = "mesh"
    /\ UNCHANGED <<domain, sphere_pieces, boundaries, points, facets, markers,
                   holes, entry>>
    /\ UNCHANGED redirVars

Next ==
    \/ DuplicateLowerBoundaries
    \/ BuildPointList("duplicated")
    \/ ZeroSnap
    \/ BuildFacetList
    \/ BuildHoleList
    \/ SetMesh

Spec == Init /\ [][Next]_vars

NextMerge ==
    \/ BuildPointList("start")
    \/ ZeroSnap

SpecMerge == InitMerge /\ [][NextMerge]_vars

----------------------------------------------------------------------------
(* redirect_tetgen_output around tet.build (lines 12-52 and 362-365) *)

MaxHeader == 1
\* extract_stats reads 11 lines after the 'Statistics:' line (line 31) and
\* parses the lines stats[7:] (line 33)
StatLines == 11
StatFrom == 7

\* kinds of log line
\*   "text"        no 'Statistics:' in it, last field not a number
\*   "Statistics:" the line extract_stats looks for
\*   "count: 12"   last field is an integer
\*   "count: n/a"  last field is not an integer
\*   ""            no field at all (also what readline gives at end of file)
StatsLine == "Statistics:"
IntLine == "count: 12"
WordLine == "count: n/a"
BlankLine == ""

\* the lines after 'Statistics:': m of them, the one at position bad of the
\* given kind
StatsTail(m, bad, kind) ==
    [i \in 1..m |-> IF i = bad THEN kind
                    ELSE IF i <= StatFrom THEN "text" ELSE IntLine]

Header(n) == [i \in 1..n |-> "text"]

LogChoices ==
    {Header(n) : n \in 0..MaxHeader}
    \cup {Header(n) \o <<StatsLine>> \o StatsTail(m, bad, kind) :
            n \in 0..MaxHeader, m \in 0..StatLines,
            bad \in {0} \cup ((StatFrom + 1)..StatLines),
            kind \in {WordLine, BlankLine}}

\* f.readline(): the line at the position, or the empty line at end of file
ReadLine(f, pos) == IF pos <= Len(f) THEN f[pos] ELSE BlankLine

\* int(sl.split()[-1])
ParseCount(sl) ==
    CASE sl = IntLine -> "int"
      [] sl = BlankLine -> "IndexError"
      [] OTHER -> "ValueError"

\* lines 31-36, entered at the line after 'Statistics:': the exception of
\* the first count that fails to parse, or None
ParseStats(f, pos) ==
    LET stats == [i \in 1..StatLines |-> ReadLine(f, pos + i - 1)]
        bad == {i \in (StatFrom + 1)..StatLines : ParseCount(stats[i]) # "int"}
    IN  IF bad = {} THEN None ELSE ParseCount(stats[Min(bad)])

InitRedirect ==
    /\ domain = [L |-> DomainL]
    /\ sphere_pieces = <<>>
    /\ boundaries = <<>>
    /\ pc = "build"
    /\ points = NoResult
    /\ facets = NoResult
    /\ markers = NoResult
    /\ holes = NoResult
    /\ mesh = NoResult
    /\ entry = NoResult
    /\ RedirectIdle

\* lines 38-41
EnterScope ==
    /\ rpc = "idle"
    /\ saved_stdout_fd' = "open"
    /\ rpc' = "try"
    /\ UNCHANGED <<stdout_fd, tfile, log, fpos, engine, exc, info, outcome>>
    /\ UNCHANGED geomVars

\* lines 43-44: open the log file and point stdout at it
OpenLog ==
    /\ rpc = "try"
    /\ \E opened \in BOOLEAN :
         IF opened
         THEN /\ tfile' = "open"
              /\ stdout_fd' = "tfile"
              /\ rpc' = "body"
              /\ exc' = exc
         ELSE /\ exc' = "OSError"
              /\ rpc' = "finally"
              /\ UNCHANGED <<tfile, stdout_fd>>
    /\ UNCHANGED <<saved_stdout_fd, log, fpos, engine, info, outcome>>
    /\ UNCHANGED geomVars

\* lines 45 and 363-365: the with body, tet.build writing its log to stdout
Body ==
    /\ rpc = "body"
    /\ \E ok \in BOOLEAN : \E written \in LogChoices :
         /\ log' = written
         /\ IF ok
            THEN engine' = "ok" /\ rpc' = "restore" /\ exc' = exc
            ELSE engine' = "failed" /\ rpc' = "finally" /\ exc' = "EngineError"
    /\ UNCHANGED <<stdout_fd, saved_stdout_fd, tfile, fpos, info, outcome>>
    /\ UNCHANGED geomVars

\* lines 46-47
RestoreStdout ==
    /\ rpc = "restore"
    /\ stdout_fd' = "terminal"
    /\ fpos' = 1
    /\ rpc' = "extract"
    /\ UNCHANGED <<saved_stdout_fd, tfile, log, engine, exc, info, outcome>>
    /\ UNCHANGED geomVars

\* one iteration of extract_stats's while loop (lines 28-36), and line 48
ExtractStats ==
    /\ rpc = "extract"
    /\ LET l == ReadLine(log, fpos)
           next == IF fpos <= Len(log) THEN fpos + 1 ELSE fpos
       IN  IF l = StatsLine
           THEN LET e == ParseStats(log, next)
                IN  /\ fpos' = IF next + StatLines <= Len(log) + 1
                               THEN next + StatLines ELSE Len(log) + 1
                    /\ exc' = e
                    /\ info' = IF e = None THEN "Built mesh with ..." ELSE info
                    /\ rpc' = IF e = None THEN "close" ELSE "finally"
           ELSE /\ fpos' = next
                /\ UNCHANGED <<exc, info, rpc>>
    /\ UNCHANGED <<stdout_fd, saved_stdout_fd, tfile, log, engine, outcome>>
    /\ UNCHANGED geomVars

\* line 49
CloseLog ==
    /\ rpc = "close"
    /\ tfile' = "closed"
    /\ rpc' = "finally"
    /\ UNCHANGED <<stdout_fd, saved_stdout_fd, log, fpos, engine, exc, info,
                   outcome>>
    /\ UNCHANGED geomVars

\* lines 50-52, then the end of the with statement
Finally ==
    /\ rpc = "finally"
    /\ IF tfile = "unbound"
       THEN /\ exc' = "UnboundLocalError"
            /\ outcome' = "UnboundLocalError"
            /\ UNCHANGED <<tfile, saved_stdout_fd>>
       ELSE /\ tfile' = "closed"
            /\ saved_stdout_fd' = "closed"
            /\ exc' = exc
            /\ outcome' = IF exc = None THEN "mesh" ELSE exc
    /\ rpc' = "exit"
    /\ UNCHANGED <<stdout_fd, log, fpos, engine, info>>
    /\ UNCHANGED geomVars

NextRedirect ==
    \/ EnterScope
    \/ OpenLog
    \/ Body
    \/ RestoreStdout
    \/ ExtractStats
    \/ CloseLog
    \/ Finally

SpecRedirect == InitRedirect /\ [][NextRedirect]_vars

----------------------------------------------------------------------------
(* Properties *)

Near(p, q) == Dist2(p, q) <= TOL * TOL

NoNearDup(pts) ==
    \A i, j \in 1..Len(pts) : i < j => ~Near(pts[i], pts[j])

AllPoints(srcs) == Vstack([k \in DOMAIN srcs |-> srcs[k].points])

OnPlane(L, p) == \E i \in 1..3 : p[i] = 0 \/ p[i] = L[i]

AllOnPlanes(L, srcs) ==
    \A k \in 1..Len(AllPoints(srcs)) : OnPlane(L, AllPoints(srcs)[k])

\* number of triangles of the sources before source k
RECURSIVE TrisBefore(_, _)
TrisBefore(srcs, k) ==
    IF k <= 1 THEN 0 ELSE TrisBefore(srcs, k - 1) + Len(srcs[k - 1].tris)

TrisValid(srcs, n) ==
    \A k \in DOMAIN srcs : \A t \in DOMAIN srcs[k].tris : \A c \in 1..3 :
        srcs[k].tris[t][c] \in 0..(n - 1)

Returned == pc = "merged"

PiecesApart == NoNearDup(AllPoints(entry.sphere_pieces))

\* C1 as stated: for any pieces whose points are pairwise farther apart than
\* TOL and any boundary patches, the array build_point_list returns holds no
\* two entries within TOL of each other.
C1_NoNearDuplicates ==
    (Returned /\ PiecesApart) => NoNearDup(points)

\* C1 as amended: the same, for boundary patches whose points all lie on one
\* of the six boundary planes of the domain.
C1_NoNearDuplicatesOnPlanes ==
    (Returned /\ PiecesApart /\ AllOnPlanes(domain.L, entry.boundaries))
        => NoNearDup(points)

\* a return in which a patch point was merged away and another one was kept
C1_Witness ==
    /\ Returned
    /\ PiecesApart
    /\ AllOnPlanes(domain.L, entry.boundaries)
    /\ Len(AllPoints(entry.sphere_pieces)) >= 1
    /\ Len(points) > Len(AllPoints(entry.sphere_pieces))
    /\ Len(points) < Len(AllPoints(entry.sphere_pieces))
                     + Len(AllPoints(entry.boundaries))

\* C2: after build_point_list returns, every index of every triangle of
\* every sphere piece and boundary patch lies in [0, len(global_points)).
C2_IndexValidity ==
    Returned => /\ TrisValid(sphere_pieces, Len(points))
                /\ TrisValid(boundaries, Len(points))

\* a return with two pieces and two patches, one patch point merged away and
\* one appended after the piece points
C2_Witness ==
    /\ Returned
    /\ Len(sphere_pieces) = 2
    /\ Len(boundaries) = 2
    /\ Len(points) > Len(AllPoints(entry.sphere_pieces))
    /\ Len(points) < Len(AllPoints(entry.sphere_pieces))
                     + Len(AllPoints(entry.boundaries))

\* the three exit paths C3 names
C3_Paths == outcome \in {"mesh", "EngineError", "ValueError", "IndexError"}

\* C3: on every exit path of redirect_tetgen_output (normal return, the body
\* raising, diagnostics extraction raising) stdout refers to its previous
\* target again and every handle the scope opened is closed.
C3_RestoresAndCloses ==
    (rpc = "exit" /\ C3_Paths)
        => /\ stdout_fd = "terminal"
           /\ tfile = "closed"
           /\ saved_stdout_fd = "closed"

\* C4: when the engine succeeds, the with block of build_tetmesh ends by
\* returning the engine's mesh, whatever the captured log holds: it neither
\* raises nor keeps reading for ever.
C4_ParseFailureNotEscalated ==
    /\ (rpc = "exit" /\ engine = "ok") => outcome = "mesh"
    /\ (rpc = "extract" /\ engine = "ok") => fpos <= Len(log)

\* C5: duplicate_lower_boundaries returns the three lower patches unchanged
\* followed by three upper patches; upper patch i has the triangles of lower
\* patch i and its k-th point is the k-th lower point plus L[i] on axis i
\* and plus 0 on the other axes.
C5_PeriodicCongruence ==
    pc = "duplicated" =>
        LET lo == entry.lower_boundaries
        IN  /\ Len(boundaries) = 6
            /\ \A i \in 1..3 :
                 /\ boundaries[i] = lo[i]
                 /\ boundaries[i + 3].tris = lo[i].tris
                 /\ Len(boundaries[i + 3].points) = Len(lo[i].points)
                 /\ \A k \in DOMAIN lo[i].points : \A j \in 1..3 :
                      boundaries[i + 3].points[k][j] =
                          lo[i].points[k][j] + (IF j = i THEN domain.L[i] ELSE 0)

\* every lower patch has a point to translate
C5_Witness ==
    /\ pc = "duplicated"
    /\ \A i \in 1..3 : Len(entry.lower_boundaries[i].points) >= 1

MarkerCodes == <<1, 3, 5, 2, 4, 6>>

\* C6: build_facet_list returns one marker per triangle, the six patches'
\* triangles first in patch order, then the pieces' in piece order; patch i
\* carries marker 1, 3, 5, 2, 4, 6 and a piece carries sphere.id + 7, which
\* is never a boundary marker.
C6_FacetMarkers ==
    pc \in {"facets", "holes", "mesh"} =>
        LET nb == TrisBefore(boundaries, Len(boundaries) + 1)
            np == TrisBefore(sphere_pieces, Len(sphere_pieces) + 1)
        IN  /\ Len(boundaries) = 6
            /\ Len(facets) = nb + np
            /\ Len(markers) = nb + np
            /\ \A i \in 1..6 : \A t \in DOMAIN boundaries[i].tris :
                 /\ facets[TrisBefore(boundaries, i) + t] = boundaries[i].tris[t]
                 /\ markers[TrisBefore(boundaries, i) + t] = MarkerCodes[i]
            /\ \A k \in DOMAIN sphere_pieces :
                 \A t \in DOMAIN sphere_pieces[k].tris :
                   LET at == nb + TrisBefore(sphere_pieces, k) + t
                   IN  /\ facets[at] = sphere_pieces[k].tris[t]
                       /\ markers[at] = sphere_pieces[k].sphere.id + 7
                       /\ markers[at] \notin 1..6

\* six patches with a triangle each and pieces of two different spheres
C6_Witness ==
    /\ pc = "facets"
    /\ \A i \in 1..6 : Len(boundaries[i].tris) >= 1
    /\ Len(sphere_pieces) = 2
    /\ sphere_pieces[1].sphere.id > sphere_pieces[2].sphere.id

HolePieces == {k \in DOMAIN sphere_pieces : sphere_pieces[k].is_hole}

\* C7: build_hole_list returns one row per piece with is_hole, in input
\* order, equal to the piece's sphere centre, none for the other pieces, and
\* an array (a value with a shape), of shape (0, 3), when no piece is a hole.
C7_HoleList ==
    pc \in {"holes", "mesh"} =>
        /\ holes.shape = <<Cardinality(HolePieces), 3>>
        /\ Len(holes.rows) = Cardinality(HolePieces)
        /\ \A k \in HolePieces :
             holes.rows[Cardinality({j \in HolePieces : j <= k})]
                 = sphere_pieces[k].sphere.x

\* two pieces, the first a hole and the second not: one row
C7_Witness ==
    /\ pc = "holes"
    /\ Len(sphere_pieces) = 2
    /\ sphere_pieces[1].is_hole
    /\ ~sphere_pieces[2].is_hole
    /\ holes.rows = <<sphere_pieces[1].sphere.x>>

\* C8: for every chain i < j < k of the boundary array with i, j and j, k
\* within TOL, build_point_list completes without error and reindexes the
\* three points to one and the same surviving point.
C8_ChainsCollapse ==
    pc \in {"merged", "raised"} =>
        LET bp == entry.boundary_points
        IN  \A i, j, k \in 1..Len(bp) :
              (i < j /\ j < k /\ Near(bp[i], bp[j]) /\ Near(bp[j], bp[k]))
                => /\ pc = "merged"
                   /\ entry.reindex[i] = entry.reindex[j]
                   /\ entry.reindex[j] = entry.reindex[k]

\* C9: after build_point_list returns, every patch triangle corner that
\* referenced local point q refers to a global point within TOL of q, and
\* every piece triangle corner refers to its point q itself; also when two
\* boundary-adjacent piece points are within TOL of each other.
C9_GeometryPreserved ==
    Returned =>
        /\ \A k \in DOMAIN boundaries : \A t \in DOMAIN boundaries[k].tris :
             \A c \in 1..3 :
               Near(points[boundaries[k].tris[t][c] + 1],
                    entry.boundaries[k].points[entry.boundaries[k].tris[t][c] + 1])
        /\ \A k \in DOMAIN sphere_pieces : \A t \in DOMAIN sphere_pieces[k].tris :
             \A c \in 1..3 :
               points[sphere_pieces[k].tris[t][c] + 1] =
                 entry.sphere_pieces[k].points[entry.sphere_pieces[k].tris[t][c] + 1]

\* C10: the zero-snapping step of build_tetmesh never brings two points of
\* the array build_point_list returned within TOL of each other.
C10_SnapKeepsPointsApart ==
    [][(pc = "merged" /\ pc' = "snapped" /\ NoNearDup(points))
          => NoNearDup(points')]_vars

====
